---- MODULE Spec2Model ----
(***************************************************************************)
(* Model of the simulation bridge SimConnection                            *)
(* (src/connections/sim/sim_connection.py): construction (handshake and    *)
(* Config frame), the read loop thread "SIM", the application-facing       *)
(* calls send / broadcast / registerCallback / shutdown made from          *)
(* application threads, and the firmware subprocess as the environment.    *)
(*                                                                         *)
(* StreamFilter (stream_filter.py) and XBeeModuleSim (xbee_module_sim.py)  *)
(* are not part of the sources at hand; their behaviour is taken from the  *)
(* FrameReader and RadioRelay sections of the specification.               *)
(***************************************************************************)
EXTENDS Integers, Sequences, FiniteSets, TLC

\* ------------------------------------------------------------------ bounds
\* Inbound frames (opcode bytes) the read loop may read in one run.
MaxFrames == 2
\* Application calls (send, broadcast, registerCallback, shutdown) in one run.
MaxCalls == 2

\* ------------------------------------------------------- program constants
\* SimRxId / SimTxId
CONFIG == 1
BUZZER == 7
DIGITAL_PIN_WRITE == 80
RADIO == 82
ANALOG_READ == 97
SENSOR_READ == 115
TX_RADIO == 82
TX_ANALOG_READ == 97
TX_SENSOR_READ == 115

\* b"SYN" and b"ACK"
SYN == <<83, 89, 78>>
ACK == <<65, 67, 75>>

\* keys of ID_TO_SENSOR
ID_TO_SENSOR == 0 .. 5

\* keys of SimConnection.packetHandlers ("DO NOT HANDLE CONFIG")
packetHandlers_WithConfig == {CONFIG, BUZZER, DIGITAL_PIN_WRITE, RADIO, ANALOG_READ, SENSOR_READ}
packetHandlers == {BUZZER, DIGITAL_PIN_WRITE, RADIO, ANALOG_READ, SENSOR_READ}

\* ----------------------------------------------------- enumerated inputs
\* opcode bytes the firmware may emit: the six known ones and an unknown one
OpcodeBytes == {0, CONFIG, BUZZER, DIGITAL_PIN_WRITE, RADIO, ANALOG_READ, SENSOR_READ}
\* the two length bytes (msb, lsb) of a frame
LengthBytes == {<<0, 0>>, <<0, 1>>, <<0, 2>>, <<0, 8>>, <<1, 1>>}
\* payload bytes of short frames (pins, values, sensor ids, song types, radio)
DataBytes == {3, 6}
\* bytes of a Config payload
CfgBytes == {0, 4, 192}
\* what the firmware may send in place of the sync marker
SynChoices == {SYN, <<83, 89, 0>>}
\* hardware model answers: analog_read(pin), sensor_read(kind) as float32 bit patterns
AnalogValues == {512, 65536}
SensorVectors == {<< >>, <<1065353216>>}
\* identities and payloads the application passes to send / broadcast
Hwids == {"HWID", "OTHER"}
AppData == {<<65>>}

\* "main" constructs the connection and then uses it; "app" is a second application
\* thread, which tears the connection down; "SIM" is the read loop thread
Threads == {"main", "app", "SIM"}
AppThreads == {"main", "app"}
\* an attribute is None, or holds a bool
None == "None"
Bool(b) == IF b THEN "True" ELSE "False"

\* --------------------------------------------------------- pure functions
\* StreamFilter.read(n) on a closed source returns fewer than n bytes
ShortLens(n) == {k \in {0, 1, n - 1} : k >= 0 /\ k < n}

FillSeq(n, b) == [i \in 1 .. n |-> b]

\* payloads of n bytes: every byte sequence for short frames, uniform for long
Payloads(n) == IF n <= 2 THEN [1 .. n -> DataBytes] ELSE {FillSeq(n, b) : b \in DataBytes}

\* _getLength: (msb << 8) | lsb
GetLength(msb, lsb) == (msb * 256) + lsb

\* int.to_bytes(length=2, byteorder="big"); OverflowError outside 0..65535
Fits16(v) == v >= 0 /\ v < 65536
ToBytes2(v) == <<v \div 256, v % 256>>

\* _send_sim_packet: id_ + length + data
Frame_NoLength(id, data) == <<id>> \o data
Frame(id, data) == <<id>> \o ToBytes2(Len(data)) \o data

\* struct.pack(f"{endianness}{n}f", *sensor_data) on float32 bit patterns
Pack4(big, v) ==
    LET b3 == v \div 16777216
        b2 == (v \div 65536) % 256
        b1 == (v \div 256) % 256
        b0 == v % 256
    IN IF big THEN <<b3, b2, b1, b0>> ELSE <<b0, b1, b2, b3>>

RECURSIVE PackFloats(_, _)
PackFloats(big, vec) ==
    IF vec = << >> THEN << >>
    ELSE Pack4(big, Head(vec)) \o PackFloats(big, Tail(vec))

\* _getEndianness: data[0] == 0x04, data[4] == 0xC0 (sequences are 1-based)
IntsBigEndian_Byte4(data) == data[5] = 4
IntsBigEndian(data) == data[1] = 4
FloatsBigEndian(data) == data[5] = 192

\* send: hwid != self.hwid
HwidMatches(h) == h = "HWID"

\* ------------------------------------------------------------------ state
VARIABLES
    pc,              \* position of each thread
    arg,             \* arguments of the application call a thread is in
    out,             \* the packet a thread is writing and the index of its next byte
    cur,             \* locals of the read loop: id, length, data of the frame
    exc,             \* exception the read loop caught ("none" when none)
    cfg,             \* locals of the handshake and _getEndianness: syn, id, length, data
    stdin,           \* the latest bytes written to rocket.stdin since no packet was in
                     \* progress, each with its writer and its index in its packet
    rocket,          \* subprocess: "running", "exited" (by itself) or "killed"
    eof,             \* the firmware's output is closed and drained
    bigEndianInts, bigEndianFloats,
    callback,        \* self.callback is set
    xbee,            \* XBeeModuleSim: rocket_callback and ground_callback slots
    hwShutdowns,     \* calls of hw_sim.shutdown()
    isShuttingDown,  \* self._is_shutting_down
    killCalls,       \* calls of self.rocket.kill()
    log,             \* LOGGER records and collaborator calls of the frame being handled,
                     \* each <<what, frame number>>
    delivered,       \* messages handed to the application callback for that frame
    nRead,           \* opcode bytes read by the read loop
    nCalls,          \* application calls started
    big_endian_ints, big_endian_floats,   \* PacketParser: None until set_endianness
    packetTypeToParser,  \* PacketParser: subpacket id -> parsing function
    byte_stream,     \* the bytes of the BytesIO source from its position on
    ret,             \* how the latest PacketParser call ended and what it returned
    ended,           \* how the latest extract call and the one before it ended:
                     \* "record", "partial", the exception raised, "none" when not made
    nParserCalls     \* PacketParser calls made

simVars == <<pc, arg, out, cur, exc, cfg, stdin, rocket, eof, bigEndianInts,
             bigEndianFloats, callback, xbee, hwShutdowns, isShuttingDown, killCalls, log,
             delivered, nRead, nCalls>>

parserVars == <<big_endian_ints, big_endian_floats, packetTypeToParser, byte_stream, ret,
                ended, nParserCalls>>

vars == <<simVars, parserVars>>

NoArg == [op |-> "none", hwid |-> "HWID", data |-> << >>]
NoCur == [id |-> 0, len |-> 0, data |-> << >>]
NoCfg == [syn |-> << >>, id |-> 0, len |-> 0, data |-> << >>]
NoOut == [pkt |-> << >>, i |-> 1]

\* state when Popen has returned and _rocket_handshake is about to run
InitSim ==
    /\ pc = [t \in Threads |-> IF t = "main" THEN "hs_read" ELSE IF t = "SIM" THEN "not_started" ELSE "idle"]
    /\ arg = [t \in AppThreads |-> NoArg]
    /\ out = [t \in Threads |-> NoOut]
    /\ cur = NoCur
    /\ exc = "none"
    /\ cfg = NoCfg
    /\ stdin = << >>
    /\ rocket = "running"
    /\ eof = FALSE
    /\ bigEndianInts = None
    /\ bigEndianFloats = None
    /\ callback = FALSE
    /\ xbee = [rocket_callback |-> FALSE, ground_callback |-> FALSE]
    /\ hwShutdowns = 0
    /\ isShuttingDown = FALSE
    /\ killCalls = 0
    /\ log = << >>
    /\ delivered = << >>
    /\ nRead = 0
    /\ nCalls = 0

Constructed == pc["SIM"] # "not_started"

\* StreamFilter.read(n): n bytes while bytes arrive, fewer once the source is closed
CanReadFull == ~eof
CanReadShort == rocket # "running"
\* why a read came back short: the subprocess was killed, or it exited by itself
ReadFailCause == IF rocket = "killed" THEN "eof_killed" ELSE "eof_exited"

\* the end of the pipe's content: the byte written last and the one before it
Latest(s) == IF Len(s) > 2 THEN SubSeq(s, Len(s) - 1, Len(s)) ELSE s

\* bytes of one write call, tagged with the writer and the index in the packet
Entries(t, bytes) == [i \in 1 .. Len(bytes) |-> [w |-> t, k |-> i, b |-> bytes[i]]]

\* ------------------------------------------------------------ environment
\* the firmware process ends by itself (crash or exit); its output closes
FirmwareExit ==
    /\ rocket = "running"
    /\ rocket' = "exited"
    /\ UNCHANGED <<pc, arg, out, cur, exc, cfg, stdin, eof, bigEndianInts,
                   bigEndianFloats, callback, xbee, hwShutdowns, isShuttingDown, killCalls,
                   log, delivered, nRead, nCalls>>
    /\ UNCHANGED parserVars

\* ------------------------------------------------------------ construction
\* _rocket_handshake: assert self.stdout.read(3) == b"SYN"
HandshakeRead_NoAssert ==
    /\ pc["main"] = "hs_read"
    /\ \/ /\ CanReadFull
          /\ \E s \in SynChoices : cfg' = [cfg EXCEPT !.syn = s]
          /\ eof' = eof
       \/ /\ CanReadShort
          /\ \E k \in ShortLens(3) : cfg' = [cfg EXCEPT !.syn = SubSeq(SYN, 1, k)]
          /\ eof' = TRUE
    /\ pc' = [pc EXCEPT !["main"] = "hs_write"]
    /\ UNCHANGED <<arg, out, cur, exc, stdin, rocket, bigEndianInts,
                   bigEndianFloats, callback, xbee, hwShutdowns, isShuttingDown, killCalls,
                   log, delivered, nRead, nCalls>>
    /\ UNCHANGED parserVars

HandshakeRead ==
    /\ pc["main"] = "hs_read"
    /\ \/ /\ CanReadFull
          /\ \E s \in SynChoices :
                /\ cfg' = [cfg EXCEPT !.syn = s]
                /\ pc' = [pc EXCEPT !["main"] = IF s = SYN THEN "hs_write" ELSE "failed"]
          /\ eof' = eof
       \/ /\ CanReadShort
          /\ \E k \in ShortLens(3) : cfg' = [cfg EXCEPT !.syn = SubSeq(SYN, 1, k)]
          /\ pc' = [pc EXCEPT !["main"] = "failed"]
          /\ eof' = TRUE
    /\ UNCHANGED <<arg, out, cur, exc, stdin, rocket, bigEndianInts,
                   bigEndianFloats, callback, xbee, hwShutdowns, isShuttingDown, killCalls,
                   log, delivered, nRead, nCalls>>
    /\ UNCHANGED parserVars

\* _rocket_handshake: stdin.write(b"ACK"); stdin.flush()
\* (BrokenPipeError when the process is gone)
HandshakeWrite ==
    /\ pc["main"] = "hs_write"
    /\ stdin' = stdin \o Entries("main", ACK)
    /\ pc' = [pc EXCEPT !["main"] = IF rocket = "running" THEN "cfg_id" ELSE "failed"]
    /\ UNCHANGED <<arg, out, cur, exc, cfg, rocket, eof, bigEndianInts,
                   bigEndianFloats, callback, xbee, hwShutdowns, isShuttingDown, killCalls,
                   log, delivered, nRead, nCalls>>
    /\ UNCHANGED parserVars

\* _getEndianness: id = self.stdout.read(1)[0]; assert id == SimRxId.CONFIG.value
ConfigId ==
    /\ pc["main"] = "cfg_id"
    /\ \/ /\ CanReadFull
          /\ \E id \in OpcodeBytes :
                /\ cfg' = [cfg EXCEPT !.id = id]
                /\ pc' = [pc EXCEPT !["main"] = IF id = CONFIG THEN "cfg_len" ELSE "failed"]
          /\ eof' = eof
       \/ /\ CanReadShort
          /\ cfg' = cfg
          /\ pc' = [pc EXCEPT !["main"] = "failed"]
          /\ eof' = TRUE
    /\ UNCHANGED <<arg, out, cur, exc, stdin, rocket, bigEndianInts,
                   bigEndianFloats, callback, xbee, hwShutdowns, isShuttingDown, killCalls,
                   log, delivered, nRead, nCalls>>
    /\ UNCHANGED parserVars

\* _getEndianness: length = self._getLength(); assert length == 8
ConfigLength ==
    /\ pc["main"] = "cfg_len"
    /\ \/ /\ CanReadFull
          /\ \E l \in LengthBytes :
                /\ cfg' = [cfg EXCEPT !.len = GetLength(l[1], l[2])]
                /\ pc' = [pc EXCEPT !["main"] = IF GetLength(l[1], l[2]) = 8 THEN "cfg_data" ELSE "failed"]
          /\ eof' = eof
       \/ /\ CanReadShort
          /\ cfg' = cfg
          /\ pc' = [pc EXCEPT !["main"] = "failed"]
          /\ eof' = TRUE
    /\ UNCHANGED <<arg, out, cur, exc, stdin, rocket, bigEndianInts,
                   bigEndianFloats, callback, xbee, hwShutdowns, isShuttingDown, killCalls,
                   log, delivered, nRead, nCalls>>
    /\ UNCHANGED parserVars

\* _getEndianness: data = self.stdout.read(length)
ConfigData ==
    /\ pc["main"] = "cfg_data"
    /\ \/ /\ CanReadFull
          /\ \E d \in [1 .. cfg.len -> CfgBytes] : cfg' = [cfg EXCEPT !.data = d]
          /\ eof' = eof
       \/ /\ CanReadShort
          /\ \E k \in ShortLens(cfg.len) : \E d \in [1 .. k -> CfgBytes] :
                cfg' = [cfg EXCEPT !.data = d]
          /\ eof' = TRUE
    /\ pc' = [pc EXCEPT !["main"] = "cfg_set"]
    /\ UNCHANGED <<arg, out, cur, exc, stdin, rocket, bigEndianInts,
                   bigEndianFloats, callback, xbee, hwShutdowns, isShuttingDown, killCalls,
                   log, delivered, nRead, nCalls>>
    /\ UNCHANGED parserVars

\* _getEndianness: self.bigEndianInts = data[0] == 0x04; self.bigEndianFloats = data[4] == 0xC0
\* (IndexError on a payload cut short by closure, after the assignments already made)
ConfigSet ==
    /\ pc["main"] = "cfg_set"
    /\ bigEndianInts' = IF Len(cfg.data) >= 1 THEN Bool(IntsBigEndian(cfg.data)) ELSE bigEndianInts
    /\ bigEndianFloats' = IF Len(cfg.data) >= 5 THEN Bool(FloatsBigEndian(cfg.data)) ELSE bigEndianFloats
    /\ pc' = [pc EXCEPT !["main"] = IF Len(cfg.data) >= 5 THEN "cfg_log" ELSE "failed"]
    /\ UNCHANGED <<arg, out, cur, exc, cfg, stdin, rocket, eof, callback, xbee,
                   hwShutdowns, isShuttingDown, killCalls, log, delivered, nRead, nCalls>>
    /\ UNCHANGED parserVars

\* _getEndianness: LOGGER.info(...) and return; __init__ goes on
ConfigLog ==
    /\ pc["main"] = "cfg_log"
    /\ log' = Append(log, <<"info_endianness", 0>>)
    /\ pc' = [pc EXCEPT !["main"] = "start"]
    /\ UNCHANGED <<arg, out, cur, exc, cfg, stdin, rocket, eof, bigEndianInts,
                   bigEndianFloats, callback, xbee, hwShutdowns, isShuttingDown, killCalls,
                   delivered, nRead, nCalls>>
    /\ UNCHANGED parserVars

\* __init__, after _getEndianness: relay wired to _send_radio_sim, flag False, thread.start()
StartThread ==
    /\ pc["main"] = "start"
    /\ xbee' = [rocket_callback |-> TRUE, ground_callback |-> FALSE]
    /\ isShuttingDown' = FALSE
    /\ cfg' = [NoCfg EXCEPT !.syn = cfg.syn]
    /\ log' = << >>
    /\ stdin' = << >>
    /\ pc' = [pc EXCEPT !["main"] = "idle", !["SIM"] = "read_id"]
    /\ UNCHANGED <<arg, out, cur, exc, rocket, eof, bigEndianInts,
                   bigEndianFloats, callback, hwShutdowns, killCalls, delivered, nRead,
                   nCalls>>
    /\ UNCHANGED parserVars

Construct ==
    \/ HandshakeRead
    \/ HandshakeWrite
    \/ ConfigId
    \/ ConfigLength
    \/ ConfigData
    \/ ConfigSet
    \/ ConfigLog
    \/ StartThread

\* ------------------------------------------------- application-facing calls
\* XBeeModuleSim.send_to_rocket invokes the transmit callback; with the slot
\* cleared there is nothing to invoke and the call fails
RelayCanTransmit == xbee.rocket_callback
\* XBeeModuleSim.recieved_from_rocket invokes the receive callback; fails with none registered
RelayCanReceive == xbee.ground_callback

\* broadcast: self._xbee.send_to_rocket(data) -> _send_radio_sim -> _send_sim_packet
\* up to packet = id_ + length + data, all on the calling thread; a is the call.
\* What send_to_rocket does with the transmit slot cleared is not stated: it fails,
\* or it returns at once with nothing sent.
Transmit(t, a) ==
    IF RelayCanTransmit
    THEN /\ arg' = [arg EXCEPT ![t] = a]
         /\ out' = [out EXCEPT ![t] = [pkt |-> Frame(TX_RADIO, a.data), i |-> 1]]
         /\ pc' = [pc EXCEPT ![t] = "write"]
    ELSE /\ out' = out
         /\ \/ arg' = [arg EXCEPT ![t] = a] /\ pc' = [pc EXCEPT ![t] = "raised"]
            \/ arg' = arg /\ pc' = pc

\* an application thread calls send(hwid, data):
\* if hwid != self.hwid: raise Exception; self.broadcast(data)
Send_NoCheck(t) ==
    /\ Constructed /\ pc[t] = "idle" /\ nCalls < MaxCalls
    /\ \E h \in Hwids, d \in AppData : Transmit(t, [op |-> "send", hwid |-> h, data |-> d])
    /\ nCalls' = nCalls + 1
    /\ UNCHANGED <<cur, exc, cfg, stdin, rocket, eof, bigEndianInts, bigEndianFloats,
                   callback, xbee, hwShutdowns, isShuttingDown, killCalls, log, delivered,
                   nRead>>
    /\ UNCHANGED parserVars

Send(t) ==
    /\ Constructed /\ pc[t] = "idle" /\ nCalls < MaxCalls
    /\ \E h \in Hwids, d \in AppData :
          IF HwidMatches(h)
          THEN Transmit(t, [op |-> "send", hwid |-> h, data |-> d])
          ELSE /\ arg' = [arg EXCEPT ![t] = [op |-> "send", hwid |-> h, data |-> d]]
               /\ pc' = [pc EXCEPT ![t] = "raised"]
               /\ out' = out
    /\ nCalls' = nCalls + 1
    /\ UNCHANGED <<cur, exc, cfg, stdin, rocket, eof, bigEndianInts, bigEndianFloats,
                   callback, xbee, hwShutdowns, isShuttingDown, killCalls, log, delivered,
                   nRead>>
    /\ UNCHANGED parserVars

\* an application thread calls broadcast(data)
Broadcast(t) ==
    /\ Constructed /\ pc[t] = "idle" /\ nCalls < MaxCalls
    /\ \E d \in AppData : Transmit(t, [op |-> "broadcast", hwid |-> "HWID", data |-> d])
    /\ nCalls' = nCalls + 1
    /\ UNCHANGED <<cur, exc, cfg, stdin, rocket, eof, bigEndianInts, bigEndianFloats,
                   callback, xbee, hwShutdowns, isShuttingDown, killCalls, log, delivered,
                   nRead>>
    /\ UNCHANGED parserVars

\* an exception raised in an application call reaches the caller
Unwind(t) ==
    /\ pc[t] = "raised"
    /\ pc' = [pc EXCEPT ![t] = "idle"]
    /\ arg' = [arg EXCEPT ![t] = NoArg]
    /\ UNCHANGED <<out, cur, exc, cfg, stdin, rocket, eof, bigEndianInts, bigEndianFloats,
                   callback, xbee, hwShutdowns, isShuttingDown, killCalls, log, delivered,
                   nRead, nCalls>>
    /\ UNCHANGED parserVars

\* _send_sim_packet: for b in packet: self.rocket.stdin.write(bytes([b]))
\* (one iteration; the buffered writer takes the byte whatever the process state)
WriteByte(t) ==
    /\ pc[t] = "write"
    /\ out[t].i <= Len(out[t].pkt)
    /\ stdin' = Latest(Append(stdin, [w |-> t, k |-> out[t].i, b |-> out[t].pkt[out[t].i]]))
    /\ out' = [out EXCEPT ![t].i = @ + 1]
    /\ UNCHANGED <<pc, arg, cur, exc, cfg, rocket, eof, bigEndianInts, bigEndianFloats,
                   callback, xbee, hwShutdowns, isShuttingDown, killCalls, log, delivered,
                   nRead, nCalls>>
    /\ UNCHANGED parserVars

\* no thread other than t has written a part of its packet
NoneElseWriting(t) == \A u \in Threads \ {t} : out[u].i = 1

\* _send_sim_packet: self.rocket.stdin.flush() after the loop, then return to the caller
\* (the handler of the read loop, or the application).
\* BrokenPipeError when the process is gone.
Flush(t) ==
    /\ pc[t] = "write"
    /\ out[t].i > Len(out[t].pkt)
    /\ out' = [out EXCEPT ![t] = NoOut]
    /\ stdin' = IF NoneElseWriting(t) THEN << >> ELSE stdin
    /\ IF t = "SIM"
       THEN /\ IF rocket = "running"
               THEN /\ pc' = [pc EXCEPT ![t] = "ret"]
                    /\ log' = Append(log, <<"response", nRead>>)
                    /\ exc' = exc
               ELSE /\ pc' = [pc EXCEPT ![t] = "except"]
                    /\ exc' = "broken_pipe"
                    /\ log' = log
            /\ arg' = arg
       ELSE /\ pc' = [pc EXCEPT ![t] = IF rocket = "running" THEN "idle" ELSE "raised"]
            /\ arg' = [arg EXCEPT ![t] = IF rocket = "running" THEN NoArg ELSE @]
            /\ UNCHANGED <<exc, log>>
    /\ UNCHANGED <<cur, cfg, rocket, eof, bigEndianInts, bigEndianFloats, callback, xbee,
                   hwShutdowns, isShuttingDown, killCalls, delivered, nRead, nCalls>>
    /\ UNCHANGED parserVars

\* an application thread calls registerCallback(fn): self.callback = fn
RegisterCallback(t) ==
    /\ Constructed /\ pc[t] = "idle" /\ nCalls < MaxCalls
    /\ callback' = TRUE
    /\ pc' = [pc EXCEPT ![t] = "reg_relay"]
    /\ arg' = [arg EXCEPT ![t] = [op |-> "registerCallback", hwid |-> "HWID", data |-> << >>]]
    /\ nCalls' = nCalls + 1
    /\ UNCHANGED <<out, cur, exc, cfg, stdin, rocket, eof, bigEndianInts, bigEndianFloats,
                   xbee, hwShutdowns, isShuttingDown, killCalls, log, delivered, nRead>>
    /\ UNCHANGED parserVars

\* registerCallback: self._xbee.ground_callback = self._receive
RegisterRelay(t) ==
    /\ pc[t] = "reg_relay"
    /\ xbee' = [xbee EXCEPT !.ground_callback = TRUE]
    /\ pc' = [pc EXCEPT ![t] = "idle"]
    /\ arg' = [arg EXCEPT ![t] = NoArg]
    /\ UNCHANGED <<out, cur, exc, cfg, stdin, rocket, eof, bigEndianInts, bigEndianFloats,
                   callback, hwShutdowns, isShuttingDown, killCalls, log, delivered, nRead,
                   nCalls>>
    /\ UNCHANGED parserVars

\* an application thread calls shutdown():
\* with self._shutdown_lock: self._is_shutting_down = True
\* (one step: the lock makes it atomic with respect to the except clause of _run)
ShutdownSetFlag_Forgets(t) ==
    /\ Constructed /\ pc[t] = "idle" /\ nCalls < MaxCalls
    /\ pc' = [pc EXCEPT ![t] = "sd_xbee"]
    /\ arg' = [arg EXCEPT ![t] = [op |-> "shutdown", hwid |-> "HWID", data |-> << >>]]
    /\ nCalls' = nCalls + 1
    /\ UNCHANGED <<out, cur, exc, cfg, stdin, rocket, eof, bigEndianInts, bigEndianFloats,
                   callback, xbee, hwShutdowns, isShuttingDown, killCalls, log, delivered,
                   nRead>>
    /\ UNCHANGED parserVars

ShutdownSetFlag(t) ==
    /\ Constructed /\ pc[t] = "idle" /\ nCalls < MaxCalls
    /\ isShuttingDown' = TRUE
    /\ pc' = [pc EXCEPT ![t] = "sd_xbee"]
    /\ arg' = [arg EXCEPT ![t] = [op |-> "shutdown", hwid |-> "HWID", data |-> << >>]]
    /\ nCalls' = nCalls + 1
    /\ UNCHANGED <<out, cur, exc, cfg, stdin, rocket, eof, bigEndianInts, bigEndianFloats,
                   callback, xbee, hwShutdowns, killCalls, log, delivered, nRead>>
    /\ UNCHANGED parserVars

\* shutdown: self._xbee.shutdown() clears both callback slots of the relay
ShutdownRelay(t) ==
    /\ pc[t] = "sd_xbee"
    /\ xbee' = [rocket_callback |-> FALSE, ground_callback |-> FALSE]
    /\ pc' = [pc EXCEPT ![t] = "sd_hw"]
    /\ UNCHANGED <<arg, out, cur, exc, cfg, stdin, rocket, eof, bigEndianInts,
                   bigEndianFloats, callback, hwShutdowns, isShuttingDown, killCalls, log,
                   delivered, nRead, nCalls>>
    /\ UNCHANGED parserVars

\* shutdown: self._hw_sim.shutdown()
ShutdownHw(t) ==
    /\ pc[t] = "sd_hw"
    /\ hwShutdowns' = hwShutdowns + 1
    /\ pc' = [pc EXCEPT ![t] = "sd_kill"]
    /\ UNCHANGED <<arg, out, cur, exc, cfg, stdin, rocket, eof, bigEndianInts,
                   bigEndianFloats, callback, xbee, isShuttingDown, killCalls, log,
                   delivered, nRead, nCalls>>
    /\ UNCHANGED parserVars

\* shutdown: self.rocket.kill()
ShutdownKill(t) ==
    /\ pc[t] = "sd_kill"
    /\ killCalls' = killCalls + 1
    /\ rocket' = IF rocket = "running" THEN "killed" ELSE rocket
    /\ pc' = [pc EXCEPT ![t] = "sd_join"]
    /\ UNCHANGED <<arg, out, cur, exc, cfg, stdin, eof, bigEndianInts, bigEndianFloats,
                   callback, xbee, hwShutdowns, isShuttingDown, log, delivered, nRead,
                   nCalls>>
    /\ UNCHANGED parserVars

\* shutdown: self.thread.join() returns once the read loop thread has ended
ShutdownJoin_NoWait(t) ==
    /\ pc[t] = "sd_join"
    /\ pc' = [pc EXCEPT ![t] = "idle"]
    /\ arg' = [arg EXCEPT ![t] = NoArg]
    /\ UNCHANGED <<out, cur, exc, cfg, stdin, rocket, eof, bigEndianInts, bigEndianFloats,
                   callback, xbee, hwShutdowns, isShuttingDown, killCalls, log, delivered,
                   nRead, nCalls>>
    /\ UNCHANGED parserVars

ShutdownJoin(t) ==
    /\ pc[t] = "sd_join"
    /\ pc["SIM"] = "ended"
    /\ pc' = [pc EXCEPT ![t] = "idle"]
    /\ arg' = [arg EXCEPT ![t] = NoArg]
    /\ UNCHANGED <<out, cur, exc, cfg, stdin, rocket, eof, bigEndianInts, bigEndianFloats,
                   callback, xbee, hwShutdowns, isShuttingDown, killCalls, log, delivered,
                   nRead, nCalls>>
    /\ UNCHANGED parserVars

AppStep(t) ==
    \/ t = "main" /\ Send(t)
    \/ t = "main" /\ Broadcast(t)
    \/ Unwind(t)
    \/ t = "main" /\ RegisterCallback(t)
    \/ RegisterRelay(t)
    \/ ShutdownSetFlag(t)
    \/ ShutdownRelay(t)
    \/ ShutdownHw(t)
    \/ ShutdownKill(t)
    \/ ShutdownJoin(t)

\* --------------------------------------------------------- read loop thread
\* fixed payload lengths the handlers assert (_handleRadio takes any length)
LengthOk(id, n) ==
    CASE id = BUZZER -> n = 1
      [] id = DIGITAL_PIN_WRITE -> n = 2
      [] id = RADIO -> TRUE
      [] id = ANALOG_READ -> n = 1
      [] id = SENSOR_READ -> n = 1
      [] OTHER -> FALSE

\* the read loop raises: control goes to the except clause of _run
Raise(cause) ==
    /\ exc' = cause
    /\ pc' = [pc EXCEPT !["SIM"] = "except"]
    /\ UNCHANGED parserVars

\* _run: id = self.stdout.read(1)[0]; if id not in packetHandlers.keys(): ...
\* (IndexError on the empty read of a closed source)
ReadId_HandlesConfig ==
    /\ pc["SIM"] = "read_id"
    /\ \/ /\ CanReadFull /\ nRead < MaxFrames
          /\ \E id \in OpcodeBytes :
                /\ cur' = [id |-> id, len |-> 0, data |-> << >>]
                /\ IF id = CONFIG
                   THEN /\ pc' = pc
                        /\ \E d \in [1 .. 8 -> CfgBytes] :
                              /\ bigEndianInts' = Bool(IntsBigEndian(d))
                              /\ bigEndianFloats' = Bool(FloatsBigEndian(d))
                   ELSE /\ pc' = [pc EXCEPT !["SIM"] = IF id \in packetHandlers THEN "len" ELSE "violation"]
                        /\ UNCHANGED <<bigEndianInts, bigEndianFloats>>
          /\ nRead' = nRead + 1
          /\ log' = << <<"read", nRead + 1>> >>
          /\ UNCHANGED <<eof, exc>>
       \/ /\ CanReadShort
          /\ eof' = TRUE
          /\ Raise(ReadFailCause)
          /\ UNCHANGED <<cur, nRead, log, bigEndianInts, bigEndianFloats>>
    /\ UNCHANGED <<arg, out, cfg, stdin, rocket, callback, xbee, hwShutdowns,
                   isShuttingDown, killCalls, delivered, nCalls>>
    /\ UNCHANGED parserVars

ReadId ==
    /\ pc["SIM"] = "read_id"
    /\ \/ /\ CanReadFull /\ nRead < MaxFrames
          /\ \E id \in OpcodeBytes :
                /\ cur' = [id |-> id, len |-> 0, data |-> << >>]
                /\ pc' = [pc EXCEPT !["SIM"] = IF id \in packetHandlers THEN "len" ELSE "violation"]
          /\ nRead' = nRead + 1
          /\ log' = << <<"read", nRead + 1>> >>
          /\ UNCHANGED <<eof, exc>>
       \/ /\ CanReadShort
          /\ eof' = TRUE
          /\ Raise(ReadFailCause)
          /\ UNCHANGED <<cur, nRead, log>>
    /\ UNCHANGED <<arg, out, cfg, stdin, rocket, bigEndianInts, bigEndianFloats, callback,
                   xbee, hwShutdowns, isShuttingDown, killCalls, delivered, nCalls>>
    /\ UNCHANGED parserVars

\* _run: LOGGER.error(protocol violation), the history, "^^^^ violation."; return
Violation_Continues ==
    /\ pc["SIM"] = "violation"
    /\ log' = << <<"error_violation", nRead>>, <<"error_history", nRead>> >>
    /\ pc' = [pc EXCEPT !["SIM"] = "read_id"]
    /\ cur' = NoCur
    /\ UNCHANGED <<arg, out, exc, cfg, stdin, rocket, eof, bigEndianInts, bigEndianFloats,
                   callback, xbee, hwShutdowns, isShuttingDown, killCalls, delivered,
                   nRead, nCalls>>
    /\ UNCHANGED parserVars

Violation ==
    /\ pc["SIM"] = "violation"
    /\ log' = << <<"error_violation", nRead>>, <<"error_history", nRead>> >>
    /\ pc' = [pc EXCEPT !["SIM"] = "ended"]
    /\ cur' = NoCur
    /\ UNCHANGED <<arg, out, exc, cfg, stdin, rocket, eof, bigEndianInts, bigEndianFloats,
                   callback, xbee, hwShutdowns, isShuttingDown, killCalls, delivered,
                   nRead, nCalls>>
    /\ UNCHANGED parserVars

\* every handler: length = self._getLength(); assert length == N
\* (ValueError on a short read; _handleRadio warns on length 0 instead of asserting)
HandlerLength ==
    /\ pc["SIM"] = "len"
    /\ \/ /\ CanReadFull
          /\ \E l \in LengthBytes :
                LET n == GetLength(l[1], l[2]) IN
                IF LengthOk(cur.id, n)
                THEN /\ cur' = [cur EXCEPT !.len = n]
                     /\ pc' = [pc EXCEPT !["SIM"] = "data"]
                     /\ log' = IF cur.id = RADIO /\ n = 0
                               THEN Append(log, <<"warning_empty_radio", nRead>>)
                               ELSE log
                     /\ exc' = exc
                ELSE /\ Raise("assert_length")
                     /\ UNCHANGED <<cur, log>>
          /\ eof' = eof
       \/ /\ CanReadShort
          /\ eof' = TRUE
          /\ Raise(ReadFailCause)
          /\ UNCHANGED <<cur, log>>
    /\ UNCHANGED <<arg, out, cfg, stdin, rocket, bigEndianInts, bigEndianFloats, callback,
                   xbee, hwShutdowns, isShuttingDown, killCalls, delivered, nRead, nCalls>>
    /\ UNCHANGED parserVars

\* every handler: self.stdout.read(length): the payload, shorter when the source closed
ReadPayload ==
    /\ pc["SIM"] = "data"
    /\ \/ /\ CanReadFull
          /\ \E d \in Payloads(cur.len) : cur' = [cur EXCEPT !.data = d]
          /\ eof' = eof
       \/ /\ CanReadShort
          /\ \E k \in ShortLens(cur.len) : \E d \in Payloads(k) : cur' = [cur EXCEPT !.data = d]
          /\ eof' = TRUE
    /\ pc' = [pc EXCEPT !["SIM"] = "act"]
    /\ UNCHANGED <<arg, out, exc, cfg, stdin, rocket, bigEndianInts, bigEndianFloats,
                   callback, xbee, hwShutdowns, isShuttingDown, killCalls, log, delivered,
                   nRead, nCalls>>
    /\ UNCHANGED parserVars

\* the handler is done with its calls and about to return
Done(event) ==
    /\ log' = Append(log, <<event, nRead>>)
    /\ pc' = [pc EXCEPT !["SIM"] = "ret"]
    /\ exc' = exc
    /\ UNCHANGED parserVars

\* _handleBuzzer: songType = int(data[0]); LOGGER.info
HandleBuzzer ==
    /\ pc["SIM"] = "act" /\ cur.id = BUZZER
    /\ IF Len(cur.data) = 0
       THEN Raise(ReadFailCause) /\ log' = log
       ELSE Done("info_bell")
    /\ UNCHANGED <<arg, out, cur, cfg, stdin, rocket, eof, bigEndianInts, bigEndianFloats,
                   callback, xbee, hwShutdowns, isShuttingDown, killCalls, delivered,
                   nRead, nCalls>>
    /\ UNCHANGED parserVars

\* _handleDigitalPinWrite: pin, value = read(2); self._hw_sim.digital_write(pin, value)
HandleDigitalPinWrite ==
    /\ pc["SIM"] = "act" /\ cur.id = DIGITAL_PIN_WRITE
    /\ IF Len(cur.data) # 2
       THEN Raise(ReadFailCause) /\ log' = log
       ELSE Done("hw_digital_write")
    /\ UNCHANGED <<arg, out, cur, cfg, stdin, rocket, eof, bigEndianInts, bigEndianFloats,
                   callback, xbee, hwShutdowns, isShuttingDown, killCalls, delivered,
                   nRead, nCalls>>
    /\ UNCHANGED parserVars

\* _handleRadio: self._xbee.recieved_from_rocket(data) -> _receive:
\* if not self.callback: raise; self.callback(ConnectionMessage(hwid, self, data))
HandleRadio_Twice ==
    /\ pc["SIM"] = "act" /\ cur.id = RADIO
    /\ IF RelayCanReceive /\ callback
       THEN /\ delivered' = delivered \o << [hwid |-> "HWID", data |-> cur.data],
                                           [hwid |-> "HWID", data |-> cur.data] >>
            /\ Done("relay_rx")
       ELSE Raise("no_callback") /\ UNCHANGED <<delivered, log>>
    /\ UNCHANGED <<arg, out, cur, cfg, stdin, rocket, eof, bigEndianInts, bigEndianFloats,
                   callback, xbee, hwShutdowns, isShuttingDown, killCalls, nRead, nCalls>>
    /\ UNCHANGED parserVars

HandleRadio ==
    /\ pc["SIM"] = "act" /\ cur.id = RADIO
    /\ IF RelayCanReceive /\ callback
       THEN /\ delivered' = Append(delivered, [hwid |-> "HWID", data |-> cur.data])
            /\ Done("relay_rx")
       ELSE Raise("no_callback") /\ UNCHANGED <<delivered, log>>
    /\ UNCHANGED <<arg, out, cur, cfg, stdin, rocket, eof, bigEndianInts, bigEndianFloats,
                   callback, xbee, hwShutdowns, isShuttingDown, killCalls, nRead, nCalls>>
    /\ UNCHANGED parserVars

\* _handleAnalogRead: pin = data[0]; result = analog_read(pin).to_bytes(2, "big");
\* _send_sim_packet(ANALOG_READ, result) up to packet = id_ + length + data
HandleAnalogRead ==
    /\ pc["SIM"] = "act" /\ cur.id = ANALOG_READ
    /\ IF Len(cur.data) = 0
       THEN Raise(ReadFailCause) /\ UNCHANGED <<out, log>>
       ELSE \E v \in AnalogValues :
               IF Fits16(v)
               THEN /\ out' = [out EXCEPT !["SIM"] = [pkt |-> Frame(TX_ANALOG_READ, ToBytes2(v)), i |-> 1]]
                    /\ log' = Append(log, <<"hw_analog_read", nRead>>)
                    /\ pc' = [pc EXCEPT !["SIM"] = "write"]
                    /\ exc' = exc
               ELSE Raise("overflow") /\ UNCHANGED <<out, log>>
    /\ UNCHANGED <<arg, cur, cfg, stdin, rocket, eof, bigEndianInts, bigEndianFloats,
                   callback, xbee, hwShutdowns, isShuttingDown, killCalls, delivered,
                   nRead, nCalls>>
    /\ UNCHANGED parserVars

\* _handleSensorRead: sensor_data = sensor_read(ID_TO_SENSOR[sensor_id]); struct.pack;
\* _send_sim_packet(SENSOR_READ, result) up to packet = id_ + length + data
HandleSensorRead ==
    /\ pc["SIM"] = "act" /\ cur.id = SENSOR_READ
    /\ IF Len(cur.data) = 0
       THEN Raise(ReadFailCause) /\ UNCHANGED <<out, log>>
       ELSE IF cur.data[1] \notin ID_TO_SENSOR
       THEN Raise("key_error") /\ UNCHANGED <<out, log>>
       ELSE \E vec \in SensorVectors :
               /\ out' = [out EXCEPT !["SIM"] =
                            [pkt |-> Frame(TX_SENSOR_READ, PackFloats(bigEndianFloats = "True", vec)), i |-> 1]]
               /\ log' = Append(log, <<"hw_sensor_read", nRead>>)
               /\ pc' = [pc EXCEPT !["SIM"] = "write"]
               /\ exc' = exc
    /\ UNCHANGED <<arg, cur, cfg, stdin, rocket, eof, bigEndianInts, bigEndianFloats,
                   callback, xbee, hwShutdowns, isShuttingDown, killCalls, delivered,
                   nRead, nCalls>>
    /\ UNCHANGED parserVars

\* _run: SimConnection.packetHandlers[id](self) returns; while True goes round
Return_Early ==
    /\ pc["SIM"] \in {"ret", "write"}
    /\ pc' = [pc EXCEPT !["SIM"] = "read_id"]
    /\ cur' = NoCur
    /\ log' = << >>
    /\ delivered' = << >>
    /\ UNCHANGED <<arg, out, exc, cfg, stdin, rocket, eof, bigEndianInts, bigEndianFloats,
                   callback, xbee, hwShutdowns, isShuttingDown, killCalls, nRead, nCalls>>
    /\ UNCHANGED parserVars

Return ==
    /\ pc["SIM"] = "ret"
    /\ pc' = [pc EXCEPT !["SIM"] = "read_id"]
    /\ cur' = NoCur
    /\ log' = << >>
    /\ delivered' = << >>
    /\ UNCHANGED <<arg, out, exc, cfg, stdin, rocket, eof, bigEndianInts, bigEndianFloats,
                   callback, xbee, hwShutdowns, isShuttingDown, killCalls, nRead, nCalls>>
    /\ UNCHANGED parserVars

\* _run: except Exception: with self._shutdown_lock:
\*     if not self._is_shutting_down: LOGGER.exception(...)
\* LOGGER.warning("SIM connection thread shut down"); the thread ends
\* (one step: the lock makes it atomic with respect to the flag update of shutdown)
ExceptLog_Resumes ==
    /\ pc["SIM"] = "except"
    /\ log' = IF ~isShuttingDown
              THEN << <<"exception", nRead>>, <<"warning_thread_shut_down", nRead>> >>
              ELSE << <<"warning_thread_shut_down", nRead>> >>
    /\ pc' = [pc EXCEPT !["SIM"] = "read_id"]
    /\ cur' = NoCur
    /\ delivered' = << >>
    /\ UNCHANGED <<arg, out, exc, cfg, stdin, rocket, eof, bigEndianInts, bigEndianFloats,
                   callback, xbee, hwShutdowns, isShuttingDown, killCalls, nRead, nCalls>>
    /\ UNCHANGED parserVars

ExceptLog ==
    /\ pc["SIM"] = "except"
    /\ log' = IF ~isShuttingDown
              THEN << <<"exception", nRead>>, <<"warning_thread_shut_down", nRead>> >>
              ELSE << <<"warning_thread_shut_down", nRead>> >>
    /\ pc' = [pc EXCEPT !["SIM"] = "ended"]
    /\ cur' = NoCur
    /\ delivered' = << >>
    /\ UNCHANGED <<arg, out, exc, cfg, stdin, rocket, eof, bigEndianInts, bigEndianFloats,
                   callback, xbee, hwShutdowns, isShuttingDown, killCalls, nRead, nCalls>>
    /\ UNCHANGED parserVars

ReadLoop ==
    \/ ReadId
    \/ Violation
    \/ HandlerLength
    \/ ReadPayload
    \/ HandleBuzzer
    \/ HandleDigitalPinWrite
    \/ HandleRadio
    \/ HandleAnalogRead
    \/ HandleSensorRead
    \/ Return
    \/ ExceptLog

\* ---------------------------------------------------------------------------
\* PacketParser (main_window/packet_parser.py): one instance, calls made one at a time

\* SubpacketEnum members and the helpers of main_window/subpacket_ids
SubpacketEnum_MESSAGE == 1
SubpacketEnum_EVENT == 2
SubpacketEnum_CONFIG == 3
SubpacketEnum_SINGLE_SENSOR == 4
MIN_SINGLE_SENSOR_ID == 16
MAX_SINGLE_SENSOR_ID == 47
\* get_list_of_sensor_IDs()
SensorIDs == MIN_SINGLE_SENSOR_ID .. MAX_SINGLE_SENSOR_ID
\* isSubpacketID(id)
isSubpacketID(id) ==
    id \in {SubpacketEnum_MESSAGE, SubpacketEnum_EVENT, SubpacketEnum_CONFIG,
            SubpacketEnum_SINGLE_SENSOR} \cup SensorIDs

VERSION_ID_LEN == 40
\* keys of ID_TO_DEVICE
ID_TO_DEVICE == {0, 1, 2}

\* PacketParser calls in one run
MaxParserCalls == 4

\* a dict: a function whose domain is the set of keys present; {} is << >>
Put_KeepsOld(d, k, v) == d @@ (k :> v)
Put(d, k, v) == (k :> v) @@ d

\* keys of parsed_data: SubpacketEnum members and the strings IS_SIM, ROCKET_TYPE,
\* VERSION_ID as <<name, 0>>, a sensor's subpacket id as <<"SENSOR", id>>
Key(name) == <<name, 0>>
SensorKey(id) == <<"SENSOR", id>>

\* BytesIO.read(n): up to n bytes from the position, which moves past them
Read(s, n) == SubSeq(s, 1, IF n < Len(s) THEN n ELSE Len(s))
Rest(s, n) == SubSeq(s, (IF n < Len(s) THEN n ELSE Len(s)) + 1, Len(s))

\* fourtoint / fourtofloat after the length assertion: struct.unpack of 4 bytes,
\* '>' when the flag is true, '<' otherwise; a float is kept as its 32-bit pattern
Unpack4_IgnoresFlag(big, b) == (((b[4] * 256 + b[3]) * 256) + b[2]) * 256 + b[1]
Unpack4(big, b) ==
    IF big THEN (((b[1] * 256 + b[2]) * 256) + b[3]) * 256 + b[4]
    ELSE (((b[4] * 256 + b[3]) * 256) + b[2]) * 256 + b[1]

Range(f) == {f[x] : x \in DOMAIN f}

\* bytes.decode('ascii') succeeds
IsAscii(b) == \A i \in 1 .. Len(b) : b[i] < 128

\* __init__: MESSAGE, EVENT, CONFIG and every id of get_list_of_sensor_IDs()
ShippedParsers ==
    [i \in {SubpacketEnum_MESSAGE, SubpacketEnum_EVENT, SubpacketEnum_CONFIG} \cup SensorIDs |->
        IF i = SubpacketEnum_MESSAGE THEN "message"
        ELSE IF i = SubpacketEnum_EVENT THEN "event"
        ELSE IF i = SubpacketEnum_CONFIG THEN "config"
        ELSE "single_sensor"]

NoRet == [op |-> "none", status |-> "returned", exc |-> "none", data |-> << >>, log |-> << >>]

\* PacketParser() before any call
InitParser ==
    /\ big_endian_ints = None
    /\ big_endian_floats = None
    /\ packetTypeToParser = ShippedParsers
    /\ ret = NoRet
    /\ ended = <<"none", "none">>
    /\ nParserCalls = 0

\* the byte sources decoded: subpackets with the header timestamp bytes 00 00 01 02
TimestampBytes == <<0, 0, 1, 2>>
Hdr(id) == <<id>> \o TimestampBytes
\* float32 bit patterns 3F000000 (0.5) and 40490F5B (3.14157); every byte is below 80
\* so that either byte order of a group stays within the model checker's integers
FloatVectors == {<< >>, <<1056964608>>, <<1056964608, 1078529883>>}
\* a SensorRead response payload sent down as SingleSensor subpackets of one id
RECURSIVE AsSingleSensor(_, _)
AsSingleSensor(id, payload) ==
    IF payload = << >> THEN << >>
    ELSE Hdr(id) \o SubSeq(payload, 1, 4) \o AsSingleSensor(id, SubSeq(payload, 5, Len(payload)))
SensorStreams ==
    {AsSingleSensor(id, PackFloats(big, vec)) :
        id \in {MIN_SINGLE_SENSOR_ID, MAX_SINGLE_SENSOR_ID}, big \in BOOLEAN, vec \in FloatVectors}
WholeSubpackets ==
    {Hdr(SubpacketEnum_MESSAGE) \o <<5, 72, 69, 76, 76, 79>>,
     Hdr(SubpacketEnum_MESSAGE) \o <<2, 72, 200>>,
     Hdr(SubpacketEnum_EVENT) \o <<9>>,
     Hdr(SubpacketEnum_CONFIG) \o <<1, 2>> \o FillSeq(VERSION_ID_LEN, 86),
     Hdr(SubpacketEnum_CONFIG) \o <<0, 7>> \o FillSeq(VERSION_ID_LEN, 86),
     Hdr(MIN_SINGLE_SENSOR_ID) \o <<63, 64, 0, 1>>,
     Hdr(SubpacketEnum_SINGLE_SENSOR) \o <<7>>,
     Hdr(255) \o <<7>>}
CutSubpackets ==
    {<< >>,
     <<SubpacketEnum_MESSAGE, 0, 0>>,
     Hdr(SubpacketEnum_MESSAGE) \o <<5, 72, 69>>,
     Hdr(SubpacketEnum_EVENT),
     Hdr(SubpacketEnum_CONFIG) \o <<1>>,
     Hdr(MAX_SINGLE_SENSOR_ID) \o <<1, 2, 3>>}
Streams ==
    SensorStreams
    \cup {a \o b : a \in WholeSubpackets,
                   b \in {Hdr(SubpacketEnum_MESSAGE) \o <<5, 72, 69, 76, 76, 79>>,
                          Hdr(SubpacketEnum_EVENT) \o <<9>>} \cup CutSubpackets}
FreshSource == Hdr(SubpacketEnum_MESSAGE) \o <<5, 72, 69, 76, 76, 79>>
\* register_packet arguments
RegisteredTypes == {SubpacketEnum_MESSAGE, MIN_SINGLE_SENSOR_ID, SubpacketEnum_SINGLE_SENSOR, 255}
ParsingFns == {"custom"}

\* header(): the outcome [exc, rest, id, timestamp, log]
Header_NoIdCheck(s, bigInts) ==
    IF Len(s) = 0
    THEN [exc |-> "IndexError", rest |-> s, id |-> 0, timestamp |-> 0, log |-> << >>]
    ELSE IF Len(Read(Rest(s, 1), 4)) # 4
    THEN [exc |-> "AssertionError", rest |-> Rest(s, 5), id |-> s[1], timestamp |-> 0,
          log |-> << >>]
    ELSE [exc |-> "none", rest |-> Rest(s, 5), id |-> s[1],
          timestamp |-> Unpack4(bigInts, Read(Rest(s, 1), 4)), log |-> << >>]

Header(s, bigInts) ==
    IF Len(s) = 0
    THEN [exc |-> "IndexError", rest |-> s, id |-> 0, timestamp |-> 0, log |-> << >>]
    ELSE IF ~isSubpacketID(s[1])
    THEN [exc |-> "ValueError", rest |-> Rest(s, 1), id |-> s[1], timestamp |-> 0,
          log |-> <<"error_id_not_valid">>]
    ELSE IF Len(Read(Rest(s, 1), 4)) # 4
    THEN [exc |-> "AssertionError", rest |-> Rest(s, 5), id |-> s[1], timestamp |-> 0,
          log |-> << >>]
    ELSE [exc |-> "none", rest |-> Rest(s, 5), id |-> s[1],
          timestamp |-> Unpack4(bigInts, Read(Rest(s, 1), 4)), log |-> << >>]

\* the parsing functions: the outcome [exc, rest, data, log]
message(s) ==
    IF Len(s) = 0 THEN [exc |-> "IndexError", rest |-> s, data |-> << >>, log |-> << >>]
    ELSE LET byte_data == Read(Rest(s, 1), s[1]) IN
         IF IsAscii(byte_data)
         THEN [exc |-> "none", rest |-> Rest(s, 1 + s[1]),
               data |-> Put(<< >>, Key("MESSAGE"), byte_data), log |-> <<"info_message">>]
         ELSE [exc |-> "UnicodeDecodeError", rest |-> Rest(s, 1 + s[1]), data |-> << >>,
               log |-> << >>]

event(s) ==
    IF Len(s) = 0 THEN [exc |-> "IndexError", rest |-> s, data |-> << >>, log |-> << >>]
    ELSE [exc |-> "none", rest |-> Rest(s, 1), data |-> Put(<< >>, Key("EVENT"), s[1]),
          log |-> << >>]

config(s) ==
    IF Len(s) = 0 THEN [exc |-> "IndexError", rest |-> s, data |-> << >>, log |-> << >>]
    ELSE IF Len(s) = 1 THEN [exc |-> "IndexError", rest |-> Rest(s, 1), data |-> << >>, log |-> << >>]
    ELSE IF s[2] \notin ID_TO_DEVICE
    THEN [exc |-> "KeyError", rest |-> Rest(s, 2), data |-> << >>, log |-> << >>]
    ELSE LET version_id == Read(Rest(s, 2), VERSION_ID_LEN) IN
         IF IsAscii(version_id)
         THEN [exc |-> "none", rest |-> Rest(s, 2 + VERSION_ID_LEN),
               data |-> Put(Put(Put(<< >>, Key("IS_SIM"), s[1] # 0),
                                Key("ROCKET_TYPE"), s[2]), Key("VERSION_ID"), version_id),
               log |-> <<"info_config">>]
         ELSE [exc |-> "UnicodeDecodeError", rest |-> Rest(s, 2 + VERSION_ID_LEN),
               data |-> << >>, log |-> << >>]

single_sensor(s, id, bigFloats) ==
    IF Len(Read(s, 4)) # 4
    THEN [exc |-> "AssertionError", rest |-> Rest(s, 4), data |-> << >>, log |-> << >>]
    ELSE [exc |-> "none", rest |-> Rest(s, 4),
          data |-> Put(<< >>, SensorKey(id), Unpack4(bigFloats, Read(s, 4))),
          log |-> << >>]

\* a parsing function supplied by the caller: it reads one byte and returns it
\* together with a value of its own under the time key
custom(s, timestamp) ==
    IF Len(s) = 0 THEN [exc |-> "IndexError", rest |-> s, data |-> << >>, log |-> << >>]
    ELSE [exc |-> "none", rest |-> Rest(s, 1),
          data |-> Put(Put(<< >>, Key("CUSTOM"), s[1]), Key("TIME"), timestamp + 1),
          log |-> << >>]

\* parse_data: self.packetTypeToParser[header.subpacket_id](byte_stream, header)
parse_data_Shipped(registry, s, id, timestamp, bigFloats) ==
    IF id \notin DOMAIN ShippedParsers
    THEN [exc |-> "KeyError", rest |-> s, data |-> << >>, log |-> << >>]
    ELSE IF ShippedParsers[id] = "message" THEN message(s)
    ELSE IF ShippedParsers[id] = "event" THEN event(s)
    ELSE IF ShippedParsers[id] = "config" THEN config(s)
    ELSE single_sensor(s, id, bigFloats)

parse_data(registry, s, id, timestamp, bigFloats) ==
    IF id \notin DOMAIN registry
    THEN [exc |-> "KeyError", rest |-> s, data |-> << >>, log |-> << >>]
    ELSE IF registry[id] = "message" THEN message(s)
    ELSE IF registry[id] = "event" THEN event(s)
    ELSE IF registry[id] = "config" THEN config(s)
    ELSE IF registry[id] = "single_sensor" THEN single_sensor(s, id, bigFloats)
    ELSE custom(s, timestamp)

ParserCall == nParserCalls < MaxParserCalls /\ nParserCalls' = nParserCalls + 1

\* set_endianness
SetEndianness ==
    /\ ParserCall
    /\ \E i \in BOOLEAN, f \in BOOLEAN :
          /\ big_endian_ints' = Bool(i)
          /\ big_endian_floats' = Bool(f)
    /\ ret' = [NoRet EXCEPT !.op = "set_endianness"]
    /\ UNCHANGED <<packetTypeToParser, byte_stream, ended>>
    /\ UNCHANGED simVars

\* register_packet
RegisterPacket ==
    /\ ParserCall
    /\ \E packetType \in RegisteredTypes, parsing_fn \in ParsingFns :
          packetTypeToParser' = Put(packetTypeToParser, packetType, parsing_fn)
    /\ ret' = [NoRet EXCEPT !.op = "register_packet"]
    /\ UNCHANGED <<big_endian_ints, big_endian_floats, byte_stream, ended>>
    /\ UNCHANGED simVars

\* extract without the try/except around parse_data
Decode_NoExcept(bigInts, bigFloats, registry, s) ==
    LET header == Header(s, bigInts = "True") IN
    IF header.exc # "none"
    THEN [status |-> "raised", exc |-> header.exc, data |-> << >>, log |-> header.log,
          rest |-> header.rest, cleared |-> FALSE]
    ELSE LET p == parse_data(registry, header.rest, header.id, header.timestamp,
                             bigFloats = "True")
         IN IF p.exc # "none"
            THEN [status |-> "raised", exc |-> p.exc, data |-> << >>, log |-> p.log,
                  rest |-> p.rest, cleared |-> FALSE]
            ELSE [status |-> "returned", exc |-> "none",
                  data |-> Put(p.data, Key("TIME"), header.timestamp),
                  log |-> p.log, rest |-> p.rest, cleared |-> TRUE]

\* extract from the header extraction on: header(), parse_data() inside try/except,
\* the time stamp, the reset of both flags; "cleared" tells whether the reset ran
Decode(bigInts, bigFloats, registry, s) ==
    LET header == Header(s, bigInts = "True") IN
    IF header.exc # "none"
    THEN [status |-> "raised", exc |-> header.exc, data |-> << >>, log |-> header.log,
          rest |-> header.rest, cleared |-> FALSE]
    ELSE LET p == parse_data(registry, header.rest, header.id, header.timestamp,
                             bigFloats = "True")
             parsed_data == IF p.exc = "none" THEN p.data ELSE << >>
         IN [status |-> "returned", exc |-> "none",
             data |-> Put(parsed_data, Key("TIME"), header.timestamp),
             log |-> IF p.exc = "none" THEN p.log
                     ELSE p.log \o <<"exception_parsing_data">>,
             rest |-> p.rest, cleared |-> TRUE]

\* extract, the whole call: the outcome and what is left of the byte source
ExtractOutcome_NoCheck(bigInts, bigFloats, registry, s) == Decode(bigInts, bigFloats, registry, s)
ExtractOutcome(bigInts, bigFloats, registry, s) ==
    IF bigInts = None \/ bigFloats = None
    THEN [status |-> "raised", exc |-> "endianness_not_set", data |-> << >>, log |-> << >>,
          rest |-> s, cleared |-> FALSE]
    ELSE Decode(bigInts, bigFloats, registry, s)

Extract ==
    /\ ParserCall
    /\ LET o == ExtractOutcome(big_endian_ints, big_endian_floats, packetTypeToParser,
                               byte_stream) IN
          /\ ret' = [op |-> "extract", status |-> o.status, exc |-> o.exc, data |-> o.data,
                     log |-> o.log]
          /\ byte_stream' = o.rest
          /\ ended' = <<IF o.status = "raised" THEN o.exc
                         ELSE IF "exception_parsing_data" \in Range(o.log) THEN "partial"
                         ELSE "record",
                        ended[1]>>
          /\ big_endian_ints' = IF o.cleared THEN None ELSE big_endian_ints
          /\ big_endian_floats' = IF o.cleared THEN None ELSE big_endian_floats
    /\ UNCHANGED packetTypeToParser
    /\ UNCHANGED simVars

\* the caller wraps the next received subpacket in a new BytesIO
NewSource ==
    /\ byte_stream # FreshSource
    /\ byte_stream' = FreshSource
    /\ UNCHANGED <<big_endian_ints, big_endian_floats, packetTypeToParser, ret, ended,
                   nParserCalls>>
    /\ UNCHANGED simVars

NextParser ==
    \/ NewSource
    \/ SetEndianness
    \/ RegisterPacket
    \/ Extract

\* a parser and a byte source; the bridge is left as constructed
InitDecode ==
    /\ InitSim
    /\ InitParser
    /\ byte_stream \in Streams

SpecParser == InitDecode /\ [][NextParser]_vars


\* the bridge before construction and a parser that is never called
Init ==
    /\ InitSim
    /\ InitParser
    /\ byte_stream = << >>

\* ---------------------------------------------------------------------------
\* steps of a constructed connection and of its firmware
Running ==
    \/ FirmwareExit
    \/ \E t \in AppThreads : AppStep(t)
    \/ \E t \in Threads : WriteByte(t)
    \/ \E t \in Threads : Flush(t)
    \/ ReadLoop

Next ==
    \/ Construct
    \/ Running

Spec == Init /\ [][Next]_vars

\* state when __init__ has returned for a little-endian firmware that is running
InitRunning ==
    /\ pc = [t \in Threads |-> IF t = "SIM" THEN "read_id" ELSE "idle"]
    /\ arg = [t \in AppThreads |-> NoArg]
    /\ out = [t \in Threads |-> NoOut]
    /\ cur = NoCur
    /\ exc = "none"
    /\ cfg = [NoCfg EXCEPT !.syn = SYN]
    /\ stdin = << >>
    /\ rocket = "running"
    /\ eof = FALSE
    /\ bigEndianInts = "False"
    /\ bigEndianFloats = "False"
    /\ callback = FALSE
    /\ xbee = [rocket_callback |-> TRUE, ground_callback |-> FALSE]
    /\ hwShutdowns = 0
    /\ isShuttingDown = FALSE
    /\ killCalls = 0
    /\ log = << >>
    /\ delivered = << >>
    /\ nRead = 0
    /\ nCalls = 0
    /\ InitParser
    /\ byte_stream = << >>

\* a constructed connection whose read loop thread and whose threads inside shutdown
\* are kept running by the scheduler; application calls and the firmware's exit are
\* not owed
FairSpec ==
    /\ InitRunning /\ [][Running]_vars
    /\ WF_vars(ReadLoop \/ WriteByte("SIM") \/ Flush("SIM"))
    /\ \A t \in AppThreads :
          WF_vars(ShutdownRelay(t) \/ ShutdownHw(t) \/ ShutdownKill(t) \/ ShutdownJoin(t))

\* ------------------------------------------------------------------ claims
InShutdown(t) == pc[t] \in {"sd_xbee", "sd_hw", "sd_kill", "sd_join"}
AllIdle == \A t \in AppThreads : pc[t] = "idle"
Logged(l, what) == \E i \in 1 .. Len(l) : l[i][1] = what
ViolationLog == << <<"error_violation", nRead>>, <<"error_history", nRead>> >>

\* C1: in a run with two or more shutdown invocations the firmware subprocess is
\* force-terminated at most once: kill() is issued at most once (stated for the runs
\* in which the firmware does not exit by itself)
C1_KilledAtMostOnce == rocket # "exited" => killCalls <= 1

\* C2: all bytes of one outbound frame are written before any byte of another: a byte
\* on the pipe that is not the first of its frame directly follows the byte before it
\* of the same frame (stated for a firmware that is running and reads the pipe)
C2_FramesNotInterleaved ==
    rocket = "running"
    => \A j \in 2 .. Len(stdin) :
          stdin[j].k > 1 => stdin[j - 1].w = stdin[j].w /\ stdin[j - 1].k = stdin[j].k - 1

\* C3: an opcode byte outside Buzzer, DigitalPinWrite, Radio, AnalogRead, SensorRead
\* makes the read loop log the violation with the history and end; once the loop has
\* ended it reads no further frame, dispatches nothing and is never restarted
C3_ViolationEndsLoop ==
    [][/\ (pc["SIM"] = "read_id" /\ nRead' = nRead + 1
             /\ cur'.id \notin {BUZZER, DIGITAL_PIN_WRITE, RADIO, ANALOG_READ, SENSOR_READ}
           => pc'["SIM"] = "violation")
       /\ (pc["SIM"] = "violation" /\ pc'["SIM"] # "violation"
           => pc'["SIM"] = "ended" /\ Logged(log', "error_violation")
              /\ Logged(log', "error_history"))
       /\ (pc["SIM"] = "ended"
           => /\ pc'["SIM"] = "ended"
              /\ out'["SIM"] = out["SIM"]
              /\ UNCHANGED <<nRead, cur, log, delivered>>)
      ]_vars

C3_EndedByViolation ==
    /\ pc["SIM"] = "ended"
    /\ log = ViolationLog
    /\ nRead < MaxFrames
    /\ rocket = "running"
    /\ nCalls = MaxCalls

\* C4: the opcode byte of a frame is read only when the handler of the frame before
\* it has returned: its payload is consumed, its relay or hardware-model call is made
\* and its response frame is written and flushed; one frame is in dispatch at a time
C4_DispatchInOrder ==
    [][/\ (nRead' = nRead + 1
           => /\ pc["SIM"] = "read_id"
              /\ cur = NoCur
              /\ out["SIM"] = NoOut
              /\ log = << >> /\ delivered = << >>
              /\ log' = << <<"read", nRead + 1>> >>)
       /\ nRead' \in {nRead, nRead + 1}
       /\ (pc["SIM"] = "write" /\ pc'["SIM"] # "write"
           => out["SIM"].i > Len(out["SIM"].pkt) /\ out'["SIM"] = NoOut)
       /\ \A i \in 1 .. Len(log') : log'[i][2] = nRead'
      ]_vars

C4_SecondFrameAfterResponse ==
    /\ nRead = 2
    /\ pc["SIM"] = "ret"
    /\ Logged(log, "response")

\* C5: from the end of _getEndianness on, through every inbound frame, send, broadcast,
\* registerCallback and shutdown, bigEndianInts and bigEndianFloats keep the values
\* set from the first Config frame
C5_EndiannessImmutable ==
    [][/\ (pc["main"] \in {"cfg_log", "start"} \/ Constructed
           => UNCHANGED <<bigEndianInts, bigEndianFloats>>)
       /\ (pc["main"] \in {"cfg_log", "start"}
           => /\ bigEndianInts = Bool(cfg.data[1] = 4)
              /\ bigEndianFloats = Bool(cfg.data[5] = 192))
       /\ (Constructed => bigEndianInts # None /\ bigEndianFloats # None)
      ]_vars

C5_MixedEndiannessAfterTraffic ==
    /\ bigEndianInts = "True" /\ bigEndianFloats = "False"
    /\ nRead = MaxFrames
    /\ nCalls = MaxCalls
    /\ isShuttingDown
    /\ pc["SIM"] = "ended"

\* C6: send with an identity other than the connection's raises in the call itself,
\* hands no packet to the writer and writes no byte; send with the connection's
\* identity does what broadcast of the same bytes does
C6_SendChecksIdentity ==
    [][\A t \in AppThreads :
          arg[t].op = "none" /\ arg'[t].op = "send"
          => IF arg'[t].hwid # "HWID"
             THEN pc'[t] = "raised" /\ out' = out /\ stdin' = stdin
             ELSE \/ /\ xbee.rocket_callback
                     /\ pc'[t] = "write"
                     /\ out'[t] = [pkt |-> <<TX_RADIO, 0, Len(arg'[t].data)>> \o arg'[t].data,
                                   i |-> 1]
                  \/ /\ ~xbee.rocket_callback
                     /\ pc'[t] = "raised" /\ out' = out
      ]_vars

C6_MismatchRaised ==
    \E t \in AppThreads :
        /\ pc[t] = "raised"
        /\ arg[t].op = "send" /\ arg[t].hwid = "OTHER"
        /\ xbee.rocket_callback
        /\ rocket = "running"

\* C7: when a shutdown call returns, kill() has been called, the subprocess is gone
\* and the read loop thread has ended; and every shutdown call that has started
\* returns, whatever the read loop was doing
C7_ShutdownJoins ==
    /\ [][\A t \in AppThreads :
             pc[t] = "sd_join" /\ pc'[t] # "sd_join"
             => killCalls >= 1 /\ rocket # "running" /\ pc["SIM"] = "ended"]_vars
    /\ \A t \in AppThreads : InShutdown(t) ~> pc[t] = "idle"

C7_ReturnedAfterViolation ==
    /\ AllIdle
    /\ killCalls = 1
    /\ rocket = "killed"
    /\ pc["SIM"] = "ended"
    /\ log = ViolationLog

Phase ==
    IF pc["main"] = "failed" THEN 0
    ELSE IF pc["main"] \in {"hs_read", "hs_write"} THEN 1
    ELSE IF ~Constructed THEN 2
    ELSE IF ~isShuttingDown THEN 3
    ELSE IF rocket = "running" \/ pc["SIM"] # "ended" THEN 4
    ELSE 5

C9_ForwardOnly ==
    [][/\ LET from == Phase
               to == Phase'
           IN /\ (from # 0 /\ to # 0 => to >= from)
              /\ (to = 0 => from \in {0, 1, 2})
              /\ (from = 0 => to = 0 /\ pc'["SIM"] = "not_started")
       /\ (~Constructed /\ stdin' # stdin /\ stdin' # << >> => cfg.syn = SYN)
       /\ (~Constructed /\ pc'["SIM"] # "not_started"
           => /\ cfg.syn = SYN
              /\ cfg.id = CONFIG /\ cfg.len = 8
              /\ bigEndianInts # None /\ bigEndianFloats # None)
      ]_vars

C9_Terminated == Phase = 5 /\ AllIdle /\ nRead = MaxFrames

\* C10: for every 8-byte Config payload bigEndianInts is true exactly when byte 0 is
\* 0x04 and bigEndianFloats is true exactly when byte 4 is 0xC0, whatever the other
\* bytes are; 04 00 00 00 C0 00 00 00 gives (true, true)
C10_EndiannessFromConfig ==
    pc["main"] = "cfg_log" /\ Len(cfg.data) = 8
    => /\ bigEndianInts \in {"True", "False"}
       /\ bigEndianFloats \in {"True", "False"}
       /\ bigEndianInts = "True" <=> cfg.data[1] = 4
       /\ bigEndianFloats = "True" <=> cfg.data[5] = 192
       /\ (cfg.data = <<4, 0, 0, 0, 192, 0, 0, 0>>
           => bigEndianInts = "True" /\ bigEndianFloats = "True")

C10_BigEndianPayload ==
    /\ pc["main"] = "cfg_log"
    /\ cfg.data = <<4, 0, 0, 0, 192, 0, 0, 0>>
    /\ bigEndianInts = "True" /\ bigEndianFloats = "True"

\* a byte sequence of the form opcode + 2-byte big-endian length + payload of that length
IsFrame(p) == Len(p) >= 3 /\ (p[2] * 256) + p[3] = Len(p) - 3
BytesOf(entries) == [j \in 1 .. Len(entries) |-> entries[j].b]

\* C11 as stated: everything written to the firmware, the handshake acknowledgment
\* included, is a frame opcode + 2-byte big-endian length + payload
C11_AllWritesAreFrames ==
    /\ \A t \in Threads : out[t].pkt # << >> => IsFrame(out[t].pkt)
    /\ (~Constructed /\ stdin # << >> => IsFrame(BytesOf(stdin)))

\* C11 amended: the acknowledgment is the three raw bytes ACK; every packet of
\* _send_sim_packet is a frame with opcode Radio, AnalogRead or SensorRead, the bytes
\* reach the pipe as they stand in the packet, and an AnalogRead response is
\* 61 00 02 followed by the hardware model's value as two big-endian bytes
\* (value 512: 61 00 02 02 00)
C11_PacketsAreFrames ==
    /\ (~Constructed /\ stdin # << >> => BytesOf(stdin) = <<65, 67, 75>>)
    /\ \A t \in Threads :
          out[t].pkt # << >>
          => /\ IsFrame(out[t].pkt)
             /\ out[t].pkt[1] \in {82, 97, 115}
             /\ out[t].i \in 1 .. Len(out[t].pkt) + 1
    /\ (Constructed
        => \A j \in 1 .. Len(stdin) :
              LET e == stdin[j] IN
              out[e.w].pkt # << >> /\ e.k < out[e.w].i => e.b = out[e.w].pkt[e.k])
    /\ (pc["SIM"] = "write" /\ cur.id = ANALOG_READ
        => \E v \in 0 .. 65535 :
              /\ v \in AnalogValues
              /\ out["SIM"].pkt = <<97, 0, 2, v \div 256, v % 256>>)
    /\ (pc["SIM"] = "write" /\ cur.id = SENSOR_READ => out["SIM"].pkt[1] = 115)
    /\ \A t \in AppThreads : pc[t] = "write" => out[t].pkt = <<82, 0, Len(arg[t].data)>> \o arg[t].data

C11_AnalogResponseWritten ==
    /\ pc["SIM"] = "write"
    /\ cur.id = ANALOG_READ /\ cur.data = <<3>>
    /\ out["SIM"] = [pkt |-> <<97, 0, 2, 2, 0>>, i |-> 6]
    /\ rocket = "running"

\* a step that is one whole extract call
ExtractStep == ret'.op = "extract" /\ nParserCalls' = nParserCalls + 1
EndiannessSet == big_endian_ints # None /\ big_endian_floats # None

C13_NoEndiannessNoRead ==
    [][ExtractStep /\ ~EndiannessSet
       => /\ ret'.status = "raised"
          /\ ret'.exc = "endianness_not_set"
          /\ ret'.data = << >>
          /\ ret'.log = << >>
          /\ byte_stream' = byte_stream
          /\ UNCHANGED <<big_endian_ints, big_endian_floats, packetTypeToParser>>]_vars

C13_RaisedBeforeReading ==
    /\ ret.op = "extract" /\ ret.exc = "endianness_not_set"
    /\ byte_stream = Hdr(SubpacketEnum_MESSAGE) \o <<5, 72, 69, 76, 76, 79>> \o Hdr(SubpacketEnum_EVENT) \o <<9>>
    /\ nParserCalls = 1

\* C14: whenever an extract call ends, having returned a full record, returned a partial
\* record or failed on an unrecognized id, both endianness fields are unset
C14_ClearedAfterEveryExtract ==
    [][ExtractStep /\ ret'.exc \in {"none", "ValueError"}
       => big_endian_ints' = None /\ big_endian_floats' = None]_vars

\* the record of the Message subpacket HELLO with header timestamp bytes 00 00 01 02
HelloRecord(bigInts) ==
    Put(Put(<< >>, Key("MESSAGE"), <<72, 69, 76, 76, 79>>),
        Key("TIME"), IF bigInts THEN 258 ELSE 33619968)

\* C15: extract of a subpacket whose id is not a subpacket id raises a decode error to
\* the caller and returns no record; the error is not fatal: the same parser, given
\* endianness, decodes a later subpacket normally
C15_InvalidIdRaisesNotFatal ==
    [][/\ (ExtractStep /\ EndiannessSet /\ byte_stream # << >> /\ ~isSubpacketID(byte_stream[1])
           => /\ ret'.status = "raised" /\ ret'.exc = "ValueError"
              /\ ret'.data = << >>
              /\ ret'.log = <<"error_id_not_valid">>
              /\ ended' = <<"ValueError", ended[1]>>
              /\ packetTypeToParser' = packetTypeToParser)
       /\ (ExtractStep /\ EndiannessSet /\ ended[1] = "ValueError"
             /\ byte_stream = FreshSource /\ packetTypeToParser[SubpacketEnum_MESSAGE] = "message"
           => /\ ret'.status = "returned"
              /\ ret'.data = HelloRecord(big_endian_ints = "True")
              /\ byte_stream' = << >>)]_vars

C15_DecodedAfterInvalidId ==
    /\ ended = <<"record", "ValueError">>
    /\ ret.op = "extract" /\ ret.status = "returned"
    /\ ret.data = HelloRecord(TRUE)
    /\ nParserCalls = 4

\* the header of the subpacket at the head of the byte source is valid and its payload
\* parser raises
PayloadParserFails ==
    LET header == Header(byte_stream, big_endian_ints = "True") IN
    /\ header.exc = "none"
    /\ parse_data(packetTypeToParser, header.rest, header.id, header.timestamp,
                  big_endian_floats = "True").exc # "none"

\* a telemetry Config with a device-type byte outside the table, an Event or a
\* SingleSensor subpacket cut short, under the parsers the decoder ships with
KnownPayloadFailure ==
    /\ Len(byte_stream) >= 5
    /\ byte_stream[1] \in DOMAIN packetTypeToParser
    /\ \/ /\ packetTypeToParser[byte_stream[1]] = "config"
          /\ Len(byte_stream) >= 7 /\ byte_stream[7] \notin {0, 1, 2}
       \/ /\ packetTypeToParser[byte_stream[1]] = "event"
          /\ Len(byte_stream) = 5
       \/ /\ packetTypeToParser[byte_stream[1]] = "single_sensor"
          /\ Len(byte_stream) < 9

\* C16: when the payload parser fails after a valid header, extract does not raise; it
\* logs the failure and returns a record that holds the time stamp only, and the parser
\* decodes a later subpacket normally
C16_PayloadFailureIsPartial ==
    [][/\ (ExtractStep /\ EndiannessSet /\ KnownPayloadFailure /\ isSubpacketID(byte_stream[1])
           => PayloadParserFails)
       /\ (ExtractStep /\ EndiannessSet /\ PayloadParserFails
           => /\ ret'.status = "returned" /\ ret'.exc = "none"
              /\ DOMAIN ret'.data = {Key("TIME")}
              /\ ret'.data[Key("TIME")] = Unpack4(big_endian_ints = "True", SubSeq(byte_stream, 2, 5))
              /\ ret'.log # << >> /\ ret'.log[Len(ret'.log)] = "exception_parsing_data"
              /\ ended' = <<"partial", ended[1]>>
              /\ big_endian_ints' = None /\ big_endian_floats' = None
              /\ packetTypeToParser' = packetTypeToParser)
       /\ (ExtractStep /\ EndiannessSet /\ ended[1] = "partial"
             /\ byte_stream = FreshSource /\ packetTypeToParser[SubpacketEnum_MESSAGE] = "message"
           => /\ ret'.status = "returned"
              /\ ret'.data = HelloRecord(big_endian_ints = "True"))]_vars

C16_UnknownDeviceTypePartial ==
    /\ ended[1] = "partial"
    /\ ret.op = "extract" /\ ret.status = "returned"
    /\ DOMAIN ret.data = {Key("TIME")}
    /\ byte_stream = FillSeq(VERSION_ID_LEN, 86) \o Hdr(SubpacketEnum_EVENT) \o <<9>>

\* C17: every record extract returns holds, under the time key, the 4 header timestamp
\* bytes decoded with the integer endianness that was set, whatever the payload parser
\* stored; the Message subpacket with length byte 5 and text HELLO decodes to exactly
\* {Message: HELLO, Time: header timestamp}
C17_TimeStamped ==
    [][/\ (ExtractStep /\ ret'.status = "returned"
           => /\ Key("TIME") \in DOMAIN ret'.data
              /\ LET b == byte_stream IN
                 ret'.data[Key("TIME")] =
                    IF big_endian_ints = "True"
                    THEN (b[2] * 16777216) + (b[3] * 65536) + (b[4] * 256) + b[5]
                    ELSE (b[5] * 16777216) + (b[4] * 65536) + (b[3] * 256) + b[2])
       /\ (ExtractStep /\ EndiannessSet /\ Len(byte_stream) >= 11
             /\ SubSeq(byte_stream, 1, 11) = FreshSource
             /\ packetTypeToParser[SubpacketEnum_MESSAGE] = "message"
           => /\ ret'.status = "returned"
              /\ DOMAIN ret'.data = {Key("MESSAGE"), Key("TIME")}
              /\ ret'.data[Key("MESSAGE")] = <<72, 69, 76, 76, 79>>
              /\ ret'.data[Key("TIME")] = IF big_endian_ints = "True" THEN 258 ELSE 33619968)]_vars

C17_ParserTimeReplaced ==
    /\ ret.op = "extract" /\ ret.status = "returned"
    /\ Key("CUSTOM") \in DOMAIN ret.data
    /\ ret.data[Key("TIME")] = 258

\* the subpacket at the head of the byte source has an id bound to the caller's parser
\* and at least the one payload byte that parser reads
CustomBound ==
    /\ Len(byte_stream) >= 6
    /\ byte_stream[1] \in DOMAIN packetTypeToParser
    /\ packetTypeToParser[byte_stream[1]] = "custom"

DispatchedToCustom ==
    /\ ret'.status = "returned"
    /\ DOMAIN ret'.data = {Key("CUSTOM"), Key("TIME")}
    /\ ret'.data[Key("CUSTOM")] = byte_stream[6]
    /\ byte_stream' = SubSeq(byte_stream, 7, Len(byte_stream))

\* only register_packet changes the registry, and only at the id it is given
RegistryChangesOneId ==
    packetTypeToParser' # packetTypeToParser
    => /\ ret'.op = "register_packet"
       /\ \E id \in RegisteredTypes :
             /\ DOMAIN packetTypeToParser' = DOMAIN packetTypeToParser \cup {id}
             /\ packetTypeToParser'[id] = "custom"
             /\ \A i \in DOMAIN packetTypeToParser \ {id} :
                   packetTypeToParser'[i] = packetTypeToParser[i]

\* C18 as stated: after register_packet(id, parser) every later extract of a subpacket
\* with that id is dispatched to that parser, for any id
C18_AnyIdDispatched ==
    [][/\ RegistryChangesOneId
       /\ (ExtractStep /\ EndiannessSet /\ CustomBound => DispatchedToCustom)]_vars

\* C18 amended: for an id that isSubpacketID accepts, every later extract is dispatched
\* to the registered parser (an id shipped without a parser becomes decodable, a shipped
\* parser is replaced) and all other ids keep their parsers; for an id isSubpacketID
\* rejects the registration does not make the id decodable: extract raises ValueError
C18_RecognizedIdDispatched ==
    [][/\ RegistryChangesOneId
       /\ (ExtractStep /\ EndiannessSet /\ CustomBound /\ isSubpacketID(byte_stream[1])
           => DispatchedToCustom)
       /\ (ExtractStep /\ EndiannessSet /\ CustomBound /\ ~isSubpacketID(byte_stream[1])
           => ret'.status = "raised" /\ ret'.exc = "ValueError")
       /\ \A i \in DOMAIN packetTypeToParser :
             packetTypeToParser[i] # "custom" => /\ i \in DOMAIN ShippedParsers
                                                 /\ packetTypeToParser[i] = ShippedParsers[i]]_vars

C18_NewIdDecoded ==
    /\ ret.op = "extract" /\ ret.status = "returned"
    /\ SubpacketEnum_SINGLE_SENSOR \in DOMAIN packetTypeToParser
    /\ Key("CUSTOM") \in DOMAIN ret.data
    /\ ret.data[Key("CUSTOM")] = 7
    /\ packetTypeToParser[SubpacketEnum_MESSAGE] = "message"

\* C19: the hardware model and the relay are mutated only by the read-loop thread: while
\* the read loop thread is alive no step of an application thread changes the relay's
\* callback slots or stops the hardware model
C19_OnlyReadLoopMutates ==
    [][pc["SIM"] \notin {"not_started", "ended"} /\ rocket = "running"
       => xbee' = xbee /\ hwShutdowns' = hwShutdowns]_vars

\* the read loop leaves _handleRadio, by returning or by raising
RadioDispatched == pc["SIM"] = "act" /\ cur.id = RADIO /\ pc'["SIM"] # "act"
Envelope(data) == [hwid |-> "HWID", data |-> data]

\* C20: with a receive callback registered, every inbound Radio frame is handed to the
\* relay once with the payload as read and reaches the callback in an envelope with this
\* connection's identity; a Radio frame of length zero logs a warning and no error, is
\* forwarded with an empty payload, and the read loop goes on to the next frame
C20_RadioForwardedOnce ==
    [][/\ (RadioDispatched /\ RelayCanReceive /\ callback
           => /\ delivered' = <<Envelope(cur.data)>>
              /\ pc'["SIM"] = "ret"
              /\ cur' = cur
              /\ log' = Append(log, <<"relay_rx", nRead>>))
       /\ (delivered' # delivered
           => \/ RadioDispatched /\ delivered = << >>
              \/ pc["SIM"] = "ret" /\ delivered' = << >>)
       /\ (pc["SIM"] = "len" /\ cur.id = RADIO /\ pc'["SIM"] = "data" /\ cur'.len = 0
           => log' = << <<"read", nRead>>, <<"warning_empty_radio", nRead>> >>)
       /\ (pc["SIM"] = "data" /\ cur.id = RADIO /\ cur.len = 0 /\ pc'["SIM"] # "data"
           => pc'["SIM"] = "act" /\ cur'.data = << >> /\ log' = log)
       /\ (pc["SIM"] = "ret" /\ cur.id = RADIO
           => /\ delivered = <<Envelope(cur.data)>>
              /\ (cur.len = 0
                  => log = << <<"read", nRead>>, <<"warning_empty_radio", nRead>>,
                              <<"relay_rx", nRead>> >>)
              /\ (pc'["SIM"] # "ret" => pc'["SIM"] = "read_id" /\ exc' = "none"))]_vars

C20_EmptyRadioForwarded ==
    /\ pc["SIM"] = "ret" /\ cur.id = RADIO /\ cur.len = 0
    /\ delivered = <<Envelope(<< >>)>>
    /\ nRead = 2
    /\ rocket = "running" /\ ~isShuttingDown

\* C21: when the read loop reads an unrecognized opcode it terminates, and an error is
\* logged exactly when the shutdown guard flag is unset: none is logged once shutdown
\* has set the flag
C21_ViolationLogGuarded ==
    [][pc["SIM"] = "violation" /\ pc'["SIM"] # "violation"
       => /\ pc'["SIM"] = "ended"
          /\ (Logged(log', "error_violation") <=> ~isShuttingDown)]_vars

\* C22: the Config opcode is accepted only as the first inbound frame: read by the read
\* loop of a constructed connection it is a protocol violation, the loop ends, and the
\* negotiated endianness is never changed
C22_ConfigOnlyFirst ==
    [][/\ (pc["SIM"] = "read_id" /\ nRead' = nRead + 1 /\ cur'.id = CONFIG
           => pc'["SIM"] = "violation")
       /\ (pc["SIM"] = "violation" /\ cur.id = CONFIG /\ pc'["SIM"] # "violation"
           => /\ pc'["SIM"] = "ended"
              /\ log' = ViolationLog)
       /\ (cur.id = CONFIG => pc["SIM"] = "violation")
       /\ (Constructed /\ (nRead > 0 \/ nRead' > 0)
           => bigEndianInts' = bigEndianInts /\ bigEndianFloats' = bigEndianFloats)]_vars

C22_ConfigReadWhileRunning ==
    /\ pc["SIM"] = "violation" /\ cur.id = CONFIG
    /\ bigEndianInts = "True" /\ bigEndianFloats = "False"
    /\ nRead = 2
    /\ rocket = "running" /\ ~isShuttingDown

\* C23: a payload handed on by a handler is never that of a truncated frame: a Radio
\* payload delivered through the relay has exactly the length the frame declared, and a
\* handler past its dispatch holds a payload of the declared length
C23_NoTruncatedPayload ==
    /\ \A i \in 1 .. Len(delivered) : Len(delivered[i].data) = cur.len
    /\ (pc["SIM"] \in {"ret", "write"} => Len(cur.data) = cur.len)

HandlerFailures == {"assert_length", "key_error", "overflow", "no_callback"}

\* C24: a failure inside a frame handler (a length other than the opcode's fixed length,
\* a SensorRead id outside the table, a hardware value that does not fit 16 bits, a Radio
\* frame with no receive callback) ends the read loop for good: no later frame is read,
\* the failure is logged as an error exactly when the shutdown guard is unset, and the
\* read loop does not touch the subprocess, which runs on until shutdown kills it
C24_HandlerFailureEndsLoop ==
    [][/\ (pc["SIM"] = "len" /\ pc'["SIM"] # "len"
           => IF LengthOk(cur.id, cur'.len) /\ pc'["SIM"] = "data" THEN exc' = exc
              ELSE pc'["SIM"] = "except" /\ exc' \in {"assert_length", "eof_killed", "eof_exited"})
       /\ (pc["SIM"] = "act" /\ pc'["SIM"] # "act" /\ cur.id = SENSOR_READ
             /\ Len(cur.data) = 1 /\ cur.data[1] \notin 0 .. 5
           => pc'["SIM"] = "except" /\ exc' = "key_error")
       /\ (pc["SIM"] = "act" /\ pc'["SIM"] # "act" /\ cur.id = RADIO /\ ~callback
           => pc'["SIM"] = "except" /\ exc' = "no_callback" /\ delivered' = delivered)
       /\ (pc["SIM"] = "act" /\ pc'["SIM"] = "write" /\ cur.id = ANALOG_READ
           => out'["SIM"].pkt[4] < 256)
       /\ (exc' # exc => pc'["SIM"] = "except")
       /\ (pc["SIM"] = "except" /\ pc'["SIM"] # "except"
           => /\ pc'["SIM"] = "ended"
              /\ (Logged(log', "exception") <=> ~isShuttingDown))
       /\ (pc["SIM"] \in {"except", "ended"}
           => nRead' = nRead /\ delivered' = << >> /\ out'["SIM"] = out["SIM"]
              /\ pc'["SIM"] \in {"except", "ended"})
       /\ (pc'["SIM"] # pc["SIM"] => rocket' = rocket /\ killCalls' = killCalls)
       /\ (rocket = "running" /\ rocket' = "killed" => \E t \in AppThreads : pc[t] = "sd_kill")]_vars

C24_EndedByHandlerFailure ==
    /\ pc["SIM"] = "ended"
    /\ exc = "key_error"
    /\ Logged(log, "exception")
    /\ rocket = "running" /\ ~isShuttingDown
    /\ nRead = 1 /\ AllIdle

\* C25: a failed decode does not disturb the next one on the same byte source: when
\* extract returns a partial record for a complete subpacket of a shipped kind that is
\* followed by another subpacket, the byte source is left at the first byte of the
\* following subpacket's header
C25_NextSubpacketAfterPartial ==
    [][\A a \in WholeSubpackets, b \in {FreshSource, Hdr(SubpacketEnum_EVENT) \o <<9>>} :
          (/\ ExtractStep /\ EndiannessSet
           /\ byte_stream = a \o b
           /\ a[1] \in DOMAIN ShippedParsers
           /\ packetTypeToParser[a[1]] = ShippedParsers[a[1]]
           /\ ended'[1] = "partial")
          => byte_stream' = b]_vars

====
